---- MODULE Spec2Model ----
(***************************************************************************)
(* Portable globs and the glob-pruned directory walk of uv-ieg-walk.       *)
(*                                                                         *)
(* A glob is kept as its pattern text (a sequence of one-character         *)
(* strings) together with the tokens globset parses it into.  A relative   *)
(* path is a sequence of components, a component is a sequence of          *)
(* characters; the bytes the matchers see are the components joined by the *)
(* host's separator.                                                       *)
(***************************************************************************)
EXTENDS Naturals, Integers, Sequences, FiniteSets, TLC

\* ---------------------------------------------------------------- bounds
\* Largest number of entries below the root of a tree.
MaxEntries == 3
\* Largest depth of an entry below the root.
MaxDepth == 2
\* Largest number of globs handed to GlobWalkDir::new.
MaxGlobs == 2
\* Largest length of the patterns tried on the validators, the tests' own
\* patterns apart.
MaxPatLen == 4

\* ------------------------------------------------------------- sequences
Range(s) == {s[i] : i \in 1..Len(s)}

Last(s) == s[Len(s)]

Front(s) == SubSeq(s, 1, Len(s) - 1)

IsPrefix(s, t) == Len(s) <= Len(t) /\ SubSeq(t, 1, Len(s)) = s

\* d lies strictly below D.
IsDescendant(d, D) == Len(D) < Len(d) /\ IsPrefix(D, d)

\* ------------------------------------------------------------ host paths
\* std::path::MAIN_SEPARATOR of the build.
MAIN_SEPARATOR(h) == IF h = "windows" THEN "\\" ELSE "/"

RECURSIVE JoinFrom(_, _, _)
JoinFrom(path, i, sepc) ==
    IF i > Len(path) THEN <<>>
    ELSE (IF i = 1 THEN <<>> ELSE <<sepc>>) \o path[i] \o JoinFrom(path, i + 1, sepc)

\* Vec::from_path_lossy(path): the bytes of the path as the host writes it.
from_path_lossy(path, h) == JoinFrom(path, 1, MAIN_SEPARATOR(h))

\* globset's Candidate::new: on a host whose separator is not `/` every
\* separator byte is rewritten to `/` before matching.
Candidate(path, h) ==
    LET b == from_path_lossy(path, h)
    IN [i \in 1..Len(b) |-> IF b[i] = MAIN_SEPARATOR(h) THEN "/" ELSE b[i]]

\* ------------------------------------------------------------ characters
\* A char is a one-character string; a char outside ASCII is written as the
\* name of its code point, and so is the grave accent.  The printable ASCII
\* chars, from U+0020 on.
AsciiPrintable ==
    <<" ", "!", "\"", "#", "$", "%", "&", "'", "(", ")", "*", "+", ",",
      "-", ".", "/", "0", "1", "2", "3", "4", "5", "6", "7", "8", "9", ":",
      ";", "<", "=", ">", "?", "@", "A", "B", "C", "D", "E", "F", "G", "H",
      "I", "J", "K", "L", "M", "N", "O", "P", "Q", "R", "S", "T", "U", "V",
      "W", "X", "Y", "Z", "[", "\\", "]", "^", "_", "U+0060", "a", "b", "c",
      "d", "e", "f", "g", "h", "i", "j", "k", "l", "m", "n", "o", "p", "q",
      "r", "s", "t", "u", "v", "w", "x", "y", "z", "{", "|", "}", "~">>

\* The letters outside ASCII that the tests' patterns use, with their code
\* points.
NonAsciiLetters ==
    {<<"U+30A4", 12452>>, <<"U+30B9", 12473>>, <<"U+30BB", 12475>>,
      <<"U+30E9", 12521>>, <<"U+30F3", 12531>>, <<"U+6267", 25191>>,
      <<"U+7167", 29031>>, <<"U+B77C", 46972>>, <<"U+C13C", 49468>>,
      <<"U+C2A4", 49828>>, <<"U+C774", 51060>>}

\* c as u32.
CodePoint(c) ==
    IF \E i \in 1..Len(AsciiPrintable) : AsciiPrintable[i] = c
    THEN 31 + (CHOOSE i \in 1..Len(AsciiPrintable) : AsciiPrintable[i] = c)
    ELSE (CHOOSE l \in NonAsciiLetters : l[1] = c)[2]

\* char::is_alphanumeric: a letter or a digit of any script.
is_alphanumeric(c) ==
    \/ \E l \in NonAsciiLetters : l[1] = c
    \/ LET n == CodePoint(c)
       IN (48 <= n /\ n <= 57) \/ (65 <= n /\ n <= 90) \/ (97 <= n /\ n <= 122)


\* ------------------------------------------------------- globset parsing
Tok(k, c) == [kind |-> k, ch |-> c]

is_separator(c) == c = "/"

\* Parser::parse_star with the parser at the first star p[i]; yields the
\* tokens after the star(s) and the index parsing resumes at.
parse_star(p, i, toks) ==
    LET n == Len(p)
        prevIsSep == i > 1 /\ is_separator(p[i - 1])
        peek2None == i + 2 > n
        peek2Sep == i + 2 <= n /\ is_separator(p[i + 2])
        two == toks \o <<Tok("ZeroOrMore", ""), Tok("ZeroOrMore", "")>>
    IN IF i + 1 > n \/ p[i + 1] # "*"
       THEN [toks |-> Append(toks, Tok("ZeroOrMore", "")), at |-> i + 1]
       ELSE IF toks = <<>>
       THEN IF ~peek2None /\ ~peek2Sep
            THEN [toks |-> two, at |-> i + 2]
            ELSE [toks |-> <<Tok("RecursivePrefix", "")>>, at |-> i + 3]
       ELSE IF ~prevIsSep
       THEN [toks |-> two, at |-> i + 2]
       ELSE IF ~peek2None /\ ~peek2Sep
       THEN [toks |-> two, at |-> i + 2]
       ELSE LET popped == Last(toks)
                rest == Front(toks)
                new == IF popped.kind = "RecursivePrefix" THEN popped
                       ELSE IF popped.kind = "RecursiveSuffix" THEN popped
                       ELSE IF peek2None THEN Tok("RecursiveSuffix", "")
                       ELSE Tok("RecursiveZeroOrMore", "")
            IN [toks |-> Append(rest, new),
                at |-> IF peek2None THEN i + 2 ELSE i + 3]

\* Parser::parse_class with the parser just past the `[`: the ranges of the
\* class and the index parsing resumes at, or the error.  (`!` and `^`, which
\* negate a class, never reach the parser: the validators reject them.)
RECURSIVE parse_class(_, _, _, _, _)
parse_class(p, i, ranges, first, in_range) ==
    IF i > Len(p) THEN [err |-> "UnclosedClass"]
    ELSE LET c == p[i]
             n == Len(ranges)
             add_to_last_range ==
                 IF CodePoint(c) < CodePoint(ranges[n][1])
                 THEN [err |-> "InvalidRange"]
                 ELSE parse_class(p, i + 1, [ranges EXCEPT ![n][2] = c],
                                  FALSE, FALSE)
         IN IF c = "]" /\ ~first
            THEN [err |-> "",
                  ranges |-> IF in_range THEN Append(ranges, <<"-", "-">>)
                             ELSE ranges,
                  at |-> i + 1]
            ELSE IF c = "]"
            THEN parse_class(p, i + 1, Append(ranges, <<c, c>>), FALSE, in_range)
            ELSE IF c = "-" /\ first
            THEN parse_class(p, i + 1, Append(ranges, <<c, c>>), FALSE, in_range)
            ELSE IF c = "-" /\ ~in_range
            THEN parse_class(p, i + 1, ranges, FALSE, TRUE)
            ELSE IF in_range THEN add_to_last_range
            ELSE parse_class(p, i + 1, Append(ranges, <<c, c>>), FALSE, FALSE)

\* Parser::parse: the tokens of the pattern, or one Error token.  (The chars
\* `{`, `}`, `,` and `\` never reach the parser: the validators reject them.)
RECURSIVE ParseFrom(_, _, _)
ParseFrom(p, i, toks) ==
    IF i > Len(p) THEN toks
    ELSE IF p[i] = "?" THEN ParseFrom(p, i + 1, Append(toks, Tok("Any", "")))
    ELSE IF p[i] = "*"
         THEN LET r == parse_star(p, i, toks) IN ParseFrom(p, r.at, r.toks)
    ELSE IF p[i] = "["
         THEN LET r == parse_class(p, i + 1, <<>>, TRUE, FALSE)
              IN IF r.err # "" THEN <<Tok("Error", r.err)>>
                 ELSE ParseFrom(p, r.at,
                          Append(toks, [kind |-> "Class", ch |-> "",
                                        ranges |-> r.ranges]))
    ELSE ParseFrom(p, i + 1, Append(toks, Tok("Literal", p[i])))

\* Tokens::to_regex_with: the regex of the tokens, item by item.  A glob
\* that is `**` and nothing else becomes `.*`, which matches everything.
to_regex_with(tokens) ==
    IF tokens = <<Tok("RecursivePrefix", "")>> THEN <<Tok("DotStar", "")>>
    ELSE tokens

\* GlobBuilder::new(glob).literal_separator(yes).build(), which is
\* Glob::new(glob) when yes is false: the compiled glob, or the error.
GlobBuilder(p, yes) ==
    LET tokens == ParseFrom(p, 1, <<>>)
    IN IF tokens # <<>> /\ tokens[1].kind = "Error"
       THEN [tag |-> "GlobError", kind |-> tokens[1].ch]
       ELSE [tag |-> "Ok",
             glob |-> [glob |-> p, tokens |-> tokens,
                       re |-> to_regex_with(tokens),
                       literal_separator |-> yes]]

\* The globs a caller hands to GlobWalkDir::new: any pattern compiled with
\* literal_separator(true).
Compiled(p) == GlobBuilder(p, TRUE).glob

\* ------------------------------------------------------------ validators
\* Positions are usize and count chars from 0; glob[i] is the char at
\* position i - 1.  A usize that has wrapped below zero, 2^64 - k, is written
\* -k.

\* The inner `while let Some((_, c)) = chars.peek()`: the length of the run
\* of stars that begins at glob[i].
RECURSIVE StarRun(_, _)
StarRun(glob, i) ==
    IF i <= Len(glob) /\ glob[i] = "*" THEN 1 + StarRun(glob, i + 1) ELSE 0

\* TooManyStars { glob, pos: a - b }, the subtraction done on usize: below
\* zero it panics in a build with overflow checks and wraps in one without.
TooManyStars(glob, a, b, overflow_checks) ==
    IF a < b /\ overflow_checks
    THEN [tag |-> "panic", glob |-> glob]
    ELSE [tag |-> "TooManyStars", glob |-> glob, pos |-> a - b]

\* The scan of a class body with the hyphen left out of the allowed chars.
RECURSIVE ClassBody_no_hyphen(_, _)
ClassBody_no_hyphen(glob, i) ==
    IF i > Len(glob) THEN [invalid |-> "", at |-> i]
    ELSE IF is_alphanumeric(glob[i]) \/ glob[i] \in {"_", "."}
    THEN ClassBody_no_hyphen(glob, i + 1)
    ELSE IF glob[i] = "]" THEN [invalid |-> "", at |-> i + 1]
    ELSE [invalid |-> glob[i], at |-> i]

\* The `for (pos, c) in chars.by_ref()` over the body of a class, from
\* glob[i] on: where the scan resumes, or the char that is not allowed.  The
\* loop also ends, without error, when the pattern ends before a `]`.
RECURSIVE ClassBody(_, _)
ClassBody(glob, i) ==
    IF i > Len(glob) THEN [invalid |-> "", at |-> i]
    ELSE IF is_alphanumeric(glob[i]) \/ glob[i] \in {"_", "-", "."}
    THEN ClassBody(glob, i + 1)
    ELSE IF glob[i] = "]" THEN [invalid |-> "", at |-> i + 1]
    ELSE [invalid |-> glob[i], at |-> i]

\* The `while let Some((pos, c)) = chars.next()` of check_portable_glob, with
\* the next char to read at glob[i].
RECURSIVE check_portable_from(_, _, _, _)
check_portable_from(glob, i, start_or_slash, overflow_checks) ==
    IF i > Len(glob) THEN [tag |-> "Ok"]
    ELSE LET pos == i - 1
             c == glob[i]
             star_run == StarRun(glob, i)
             peek == i + star_run
             body == ClassBody(glob, i + 1)
         IN IF c = "*"
            THEN IF star_run = 3
                 THEN TooManyStars(glob, pos + 1, star_run, overflow_checks)
                 ELSE IF star_run = 2 /\ (peek > Len(glob) \/ glob[peek] # "/")
                 THEN TooManyStars(glob, pos, star_run, overflow_checks)
                 ELSE check_portable_from(glob, peek, FALSE, overflow_checks)
            ELSE IF is_alphanumeric(c) \/ c \in {"_", "-", "?"}
            THEN check_portable_from(glob, i + 1, FALSE, overflow_checks)
            ELSE IF c = "."
            THEN IF start_or_slash /\ i + 1 <= Len(glob) /\ glob[i + 1] = "."
                 THEN [tag |-> "ParentDirectory", glob |-> glob, pos |-> pos]
                 ELSE check_portable_from(glob, i + 1, FALSE, overflow_checks)
            ELSE IF c = "/"
            THEN check_portable_from(glob, i + 1, TRUE, overflow_checks)
            ELSE IF c = "["
            THEN IF body.invalid # ""
                 THEN [tag |-> "InvalidCharacterRange", glob |-> glob,
                       pos |-> body.at - 1, invalid |-> body.invalid]
                 ELSE check_portable_from(glob, body.at, FALSE, overflow_checks)
            ELSE [tag |-> "InvalidCharacter", glob |-> glob, pos |-> pos,
                  invalid |-> c]

\* check_portable_glob with start_or_slash beginning as false: the start of
\* the pattern is not taken for the start of a segment.
check_portable_glob_mid_segment(glob, overflow_checks) ==
    check_portable_from(glob, 1, FALSE, overflow_checks)

\* check_portable_glob(glob).
check_portable_glob(glob, overflow_checks) ==
    check_portable_from(glob, 1, TRUE, overflow_checks)

\* parse_portable_glob(glob): `?` hands on the validator's error, then the
\* glob is compiled with literal_separator(true).
parse_portable_glob(glob, overflow_checks) ==
    LET checked == check_portable_glob(glob, overflow_checks)
    IN IF checked.tag # "Ok" THEN checked ELSE GlobBuilder(glob, TRUE)

\* The `while let Some((pos, c)) = chars.next()` of check_pep639_globs: as
\* above, but a run of two stars is tested against  c , the star itself.
RECURSIVE check_pep639_from(_, _, _, _)
check_pep639_from(glob, i, start_or_slash, overflow_checks) ==
    IF i > Len(glob) THEN [tag |-> "Ok"]
    ELSE LET pos == i - 1
             c == glob[i]
             star_run == StarRun(glob, i)
             peek == i + star_run
             body == ClassBody(glob, i + 1)
         IN IF c = "*"
            THEN IF star_run = 3
                 THEN TooManyStars(glob, pos + 1, star_run, overflow_checks)
                 ELSE IF star_run = 2 /\ c # "/"
                 THEN TooManyStars(glob, pos, star_run, overflow_checks)
                 ELSE check_pep639_from(glob, peek, FALSE, overflow_checks)
            ELSE IF is_alphanumeric(c) \/ c \in {"_", "-", "?"}
            THEN check_pep639_from(glob, i + 1, FALSE, overflow_checks)
            ELSE IF c = "."
            THEN IF start_or_slash /\ i + 1 <= Len(glob) /\ glob[i + 1] = "."
                 THEN [tag |-> "ParentDirectory", glob |-> glob, pos |-> pos]
                 ELSE check_pep639_from(glob, i + 1, FALSE, overflow_checks)
            ELSE IF c = "/"
            THEN check_pep639_from(glob, i + 1, TRUE, overflow_checks)
            ELSE IF c = "["
            THEN IF body.invalid # ""
                 THEN [tag |-> "InvalidCharacterRange", glob |-> glob,
                       pos |-> body.at - 1, invalid |-> body.invalid]
                 ELSE check_pep639_from(glob, body.at, FALSE, overflow_checks)
            ELSE [tag |-> "InvalidCharacter", glob |-> glob, pos |-> pos,
                  invalid |-> c]

\* check_pep639_globs(glob).
check_pep639_globs(glob, overflow_checks) ==
    check_pep639_from(glob, 1, TRUE, overflow_checks)

\* parse_pep639_glob(glob): the validator, then Glob::new(glob), which
\* leaves literal_separator off.
parse_pep639_glob(glob, overflow_checks) ==
    LET checked == check_pep639_globs(glob, overflow_checks)
    IN IF checked.tag # "Ok" THEN checked ELSE GlobBuilder(glob, FALSE)

\* ------------------------------------------------------ full matcher
\* Does  c  fit a one-character wildcard of glob g.
WildOk(g, c) == g.literal_separator => c # "/"

\* Does  c  fit the class t: the regex of a class is the bracket expression
\* of its ranges, whatever literal_separator is.
ClassOk(t, c) ==
    \E x \in 1..Len(t.ranges) :
        /\ CodePoint(t.ranges[x][1]) <= CodePoint(c)
        /\ CodePoint(c) <= CodePoint(t.ranges[x][2])

\* The glob's regex, from token i on, against s from index j on.
RECURSIVE RegexMatch(_, _, _, _)
RegexMatch(g, i, s, j) ==
    LET n == Len(s)
        toks == g.re
    IN IF i > Len(toks) THEN j > n
       ELSE LET t == toks[i] IN
         CASE t.kind = "Literal" ->
                j <= n /\ s[j] = t.ch /\ RegexMatch(g, i + 1, s, j + 1)
           [] t.kind = "Any" ->
                j <= n /\ WildOk(g, s[j]) /\ RegexMatch(g, i + 1, s, j + 1)
           [] t.kind = "Class" ->
                j <= n /\ ClassOk(t, s[j]) /\ RegexMatch(g, i + 1, s, j + 1)
           [] t.kind = "ZeroOrMore" ->
                \E k \in j..(n + 1) :
                    /\ \A x \in j..(k - 1) : WildOk(g, s[x])
                    /\ RegexMatch(g, i + 1, s, k)
           [] t.kind = "RecursivePrefix" ->
                \/ RegexMatch(g, i + 1, s, j)
                \/ \E k \in j..n : s[k] = "/" /\ RegexMatch(g, i + 1, s, k + 1)
           [] t.kind = "RecursiveSuffix" ->
                /\ j <= n /\ s[j] = "/"
                /\ \E k \in (j + 1)..(n + 1) : RegexMatch(g, i + 1, s, k)
           [] t.kind = "RecursiveZeroOrMore" ->
                /\ j <= n /\ s[j] = "/"
                /\ \/ RegexMatch(g, i + 1, s, j + 1)
                   \/ \E k \in (j + 1)..n :
                         s[k] = "/" /\ RegexMatch(g, i + 1, s, k + 1)
           [] t.kind = "DotStar" ->
                \E k \in j..(n + 1) : RegexMatch(g, i + 1, s, k)

\* GlobSet::is_match on the bytes of a candidate.
GlobSetIsMatch(globs, bytes) ==
    \E x \in 1..Len(globs) : RegexMatch(globs[x], 1, bytes, 1)

\* ------------------------------------------------------------ prefix DFA
\* The dense DFA of build_many over the globs' regexes, by subset
\* construction: a DFA state is the set of NFA positions <<x, k, m>>, glob x
\* having consumed k items of its regex and standing at place m inside item
\* k + 1.
Nullable(t, m) ==
    \/ t.kind = "ZeroOrMore"
    \/ t.kind = "DotStar"
    \/ t.kind = "RecursivePrefix" /\ m = 0
    \/ t.kind = "RecursiveSuffix" /\ m = 1

\* Positions reachable from S without consuming a byte.
RECURSIVE Closure(_, _)
Closure(globs, S) ==
    LET more == {<<q[1], q[2] + 1, 0>> : q \in
                    {r \in S : /\ r[2] < Len(globs[r[1]].re)
                               /\ Nullable(globs[r[1]].re[r[2] + 1], r[3])}}
    IN IF more \subseteq S THEN S ELSE Closure(globs, S \cup more)

\* The NFA positions one byte leads to from position q.
NfaStep(globs, q, b) ==
    LET g == globs[q[1]]
        k == q[2]
        m == q[3]
        done == <<q[1], k + 1, 0>>
        inside == <<q[1], k, 1>>
    IN IF k >= Len(g.re) THEN {}
       ELSE LET t == g.re[k + 1] IN
         CASE t.kind = "Literal" -> IF b = t.ch THEN {done} ELSE {}
           [] t.kind = "Any" -> IF WildOk(g, b) THEN {done} ELSE {}
           [] t.kind = "Class" -> IF ClassOk(t, b) THEN {done} ELSE {}
           [] t.kind = "ZeroOrMore" -> IF WildOk(g, b) THEN {q} ELSE {}
           [] t.kind = "RecursivePrefix" ->
                IF b = "/" THEN {done, inside} ELSE {inside}
           [] t.kind = "RecursiveSuffix" ->
                IF m = 0 THEN (IF b = "/" THEN {inside} ELSE {}) ELSE {inside}
           [] t.kind = "RecursiveZeroOrMore" ->
                IF b = "/" THEN {done, inside}
                ELSE IF m = 1 THEN {inside} ELSE {}
           [] t.kind = "DotStar" -> {q}

\* dfa.start_state with Anchored::Yes.
start_state(globs) == Closure(globs, {<<x, 0, 0>> : x \in 1..Len(globs)})

\* dfa.next_state(state, b).
next_state(globs, state, b) ==
    Closure(globs, UNION {NfaStep(globs, q, b) : q \in state})

\* dfa.is_dead_state: the state no match can follow.
is_dead_state(state) == state = {}

\* dfa.is_match_state(dfa.next_eoi_state(state)): some regex is at its end.
eoi_is_match(globs, state) ==
    \E q \in state : q[2] = Len(globs[q[1]].re) /\ q[3] = 0

RECURSIVE Feed(_, _, _, _)
Feed(globs, state, bytes, i) ==
    IF i > Len(bytes) THEN state
    ELSE Feed(globs, next_state(globs, state, bytes[i]), bytes, i + 1)

\* ---------------------------------------------------------- GlobDirMatcher
\* GlobDirMatcher::new; built says whether build_many stayed within
\* SIZE_LIMIT, the dfa field being None when it did not.
GlobDirMatcher(globs, built) ==
    [glob_set |-> globs, dfa |-> IF built THEN "Some" ELSE "None"]

match_path(matcher, path, h) ==
    GlobSetIsMatch(matcher.glob_set, Candidate(path, h))

\* match_directory without the probe of the separator: only a directory
\* that matches itself is descended into.
match_directory_eoi_only(m, path, h) ==
    IF m.dfa = "None" THEN FALSE
    ELSE IF path = <<>> THEN TRUE
    ELSE LET globs == m.glob_set
             state == Feed(globs, start_state(globs), from_path_lossy(path, h), 1)
         IN eoi_is_match(globs, state)

match_directory(matcher, path, h) ==
    IF matcher.dfa = "None" THEN FALSE
    ELSE IF path = <<>> THEN TRUE
    ELSE LET globs == matcher.glob_set
             state == Feed(globs, start_state(globs), from_path_lossy(path, h), 1)
             slash_state == next_state(globs, state, MAIN_SEPARATOR(h))
         IN eoi_is_match(globs, state) \/ ~is_dead_state(slash_state)

\* ------------------------------------------------------------ file trees
\* Component names of the trees walked.
Names == {<<"a">>, <<"b", "c">>}

\* What an entry is on disk: a regular file, a directory, a directory that
\* read_dir fails on, or a symbolic link to a directory.
Kinds == {"file", "dir", "baddir", "link"}

\* Paths that can still be added to the set S of entries.
Extensions(S) ==
    {Append(q, nm) : q \in {r \in S \cup {<<>>} : Len(r) < MaxDepth}, nm \in Names} \ S

RECURSIVE Shapes(_)
Shapes(n) ==
    IF n = 0 THEN {{}}
    ELSE LET less == Shapes(n - 1)
         IN less \cup UNION {{S \cup {p} : p \in Extensions(S)} : S \in less}

HasChild(S, p) == \E q \in S : Len(q) = Len(p) + 1 /\ IsPrefix(p, q)

\* The trees: a kind for the root and for every entry below it.  Entries
\* lie below a readable directory, or below a link: those are the entries
\* of the directory the link points to, as seen through the link.
Trees ==
    UNION {{[root |-> rk, kind |-> f] :
                rk \in {"dir", "link"},
                f \in {k \in [S -> Kinds] :
                          \A p \in S : HasChild(S, p) => k[p] \in {"dir", "link"}}}
           : S \in Shapes(MaxEntries)}
    \cup {[root |-> rk, kind |-> <<>>] : rk \in {"missing", "file", "baddir"}}

Entries(tree) == DOMAIN tree.kind

KindOf(tree, p) == IF p = <<>> THEN tree.root ELSE tree.kind[p]

Children(tree, p) == {q \in Entries(tree) : Len(q) = Len(p) + 1 /\ IsPrefix(p, q)}

\* The path p leads through a symbolic link below the root.
ThroughLink(tree, p) ==
    \E n \in 1..(Len(p) - 1) : KindOf(tree, SubSeq(p, 1, n)) = "link"

RECURSIVE PathsUpTo(_)
PathsUpTo(n) ==
    IF n = 0 THEN {<<>>}
    ELSE LET less == PathsUpTo(n - 1)
         IN less \cup {Append(q, nm) : q \in less, nm \in Names}

\* The relative paths the matchers are probed with: one level deeper than
\* the trees go.
ProbePaths == PathsUpTo(MaxDepth + 1)

\* The glob texts walks are built from.
PatternTexts ==
    << <<"a">>,
       <<"a", "/", "*">>,
       <<"*", "/", "a">>,
       <<"b", "?">>,
       <<"*", "*", "/", "a">>,
       <<"b", "c", "/", "*", "*">>,
       <<"a", "/", "*", "*", "/", "a">>,
       <<"*", "*">> >>

\* The choices of at most n of these texts, as increasing index lists.
RECURSIVE IndexLists(_)
IndexLists(n) ==
    IF n = 0 THEN {<<>>}
    ELSE LET less == IndexLists(n - 1)
         IN less \cup
            UNION {{Append(l, y) : y \in {z \in 1..Len(PatternTexts) :
                                            l = <<>> \/ Last(l) < z}} : l \in less}

\* The glob lists handed to GlobWalkDir::new, each glob parsed.
GlobLists ==
    {[i \in 1..Len(l) |-> Compiled(PatternTexts[l[i]])] :
        l \in IndexLists(MaxGlobs)}

\* ------------------------------------------------- the tree of the tests
pathN(d) == <<"p", "a", "t", "h", d>>

dirN(d) == <<"d", "i", "r", d>>

subdir == <<"s", "u", "b", "d", "i", "r">>

a_txt == <<"a", ".", "t", "x", "t">>

Digits == {"1", "2", "3", "4", "5"}

\* tests::FILES, as relative paths.
FILES == {<<pathN(d), dirN(d), subdir, a_txt>> : d \in Digits}

\* tests::PATTERNS.
PATTERNS ==
    << pathN("1") \o <<"/", "*">>,
       pathN("2") \o <<"/">> \o dirN("2"),
       pathN("3") \o <<"/">> \o dirN("3") \o <<"/">> \o subdir \o <<"/">> \o a_txt,
       pathN("4") \o <<"/", "*", "*", "/", "*">>,
       pathN("5") >>

\* The tree the tests create: create_dir_all of each file's parent, then the
\* file.
TestTree ==
    LET all == UNION {{SubSeq(f, 1, n) : n \in 1..Len(f)} : f \in FILES}
    IN [root |-> "dir",
        kind |-> [p \in all |-> IF p \in FILES THEN "file" ELSE "dir"]]

\* PATTERNS.map(|pattern| parse_portable_glob(pattern).unwrap()).
TestGlobs ==
    [i \in 1..Len(PATTERNS) |-> parse_portable_glob(PATTERNS[i], TRUE).glob]

\* ------------------------------------------------------------- the walk
VARIABLES
    fs,         \* the tree under the walk's root
    host,       \* the host the program is built for
    matcher,    \* GlobWalkerIntoIterator.matcher
    state,      \* GlobWalkerIntoIterator.state, the walkdir::IntoIter
    yielded,    \* the items next() has returned so far, in order
    visited,    \* the entries walkdir has handed to next(), in order
    opened,     \* the directories walkdir has called read_dir on
    listed,     \* the directories walkdir has asked for an entry of
    skipped,    \* the entries next() called skip_current_dir on
    done,       \* next() has returned None
    pattern,    \* the &str handed to a validator or parser
    called,     \* the validator or parser that was called with it
    returned    \* what the call returned

walk_vars ==
    <<fs, host, matcher, state, yielded, visited, opened, listed, skipped, done>>

glob_vars == <<pattern, called, returned>>

vars == <<walk_vars, glob_vars>>

\* Items of the iterator.
OkItem(p) == [tag |-> "Ok", path |-> p]

ErrItem(p) == [tag |-> "Err", path |-> p]

\* WalkDir::new(&root).into_iter(): links are not followed, nothing is
\* sorted, the root is still to be visited.
WalkDirNew == [start |-> TRUE, stack_list |-> <<>>]

\* Path::is_dir, which looks through symbolic links.
is_dir(tree, p) == KindOf(tree, p) \in {"dir", "baddir", "link"}

\* IntoIter::push: the handle on the directory's entries; a failed read_dir
\* is kept in the list and reported by the list's first next().
DirList(tree, p) ==
    IF KindOf(tree, p) = "baddir"
    THEN [dir |-> p, err |-> TRUE, rest |-> {}]
    ELSE [dir |-> p, err |-> FALSE, rest |-> Children(tree, p)]

\* handle_entry as it would be with follow_links(true): a link to a
\* directory is pushed like a directory.
handle_entry_follow_links(tree, w, p) ==
    LET push == KindOf(tree, p) \in {"dir", "baddir", "link"}
    IN [w EXCEPT !.stack_list = IF push THEN Append(@, DirList(tree, p)) ELSE @,
                 !.opened = IF push THEN @ \cup {p} ELSE @,
                 !.visited = Append(@, p)]

\* handle_entry putting a directory's list below the lists already open, so
\* that a directory's entries come after the rest of its parent's.
handle_entry_breadth_first(tree, w, p) ==
    LET is_normal_dir == KindOf(tree, p) \in {"dir", "baddir"}
        push == is_normal_dir \/ (Len(p) = 0 /\ KindOf(tree, p) = "link")
    IN [w EXCEPT !.stack_list = IF push THEN <<DirList(tree, p)>> \o @ ELSE @,
                 !.opened = IF push THEN @ \cup {p} ELSE @,
                 !.visited = Append(@, p)]

\* IntoIter::handle_entry with follow_links off: a directory is pushed, and
\* so is a root that is a symbolic link to a directory.
handle_entry(tree, w, p) ==
    LET is_normal_dir == KindOf(tree, p) \in {"dir", "baddir"}
        push == is_normal_dir \/ (Len(p) = 0 /\ KindOf(tree, p) = "link")
    IN [w EXCEPT !.stack_list = IF push THEN Append(@, DirList(tree, p)) ELSE @,
                 !.opened = IF push THEN @ \cup {p} ELSE @,
                 !.visited = Append(@, p)]

\* IntoIter::next: the possible results, one for every order the host may
\* list a directory in.  Each is the iterator afterwards and the item.
RECURSIVE WalkdirNext(_, _)
WalkdirNext(tree, w) ==
    IF w.start
    THEN LET w1 == [w EXCEPT !.start = FALSE]
         IN IF KindOf(tree, <<>>) = "missing"
            THEN {[w |-> w1, item |-> ErrItem(<<>>)]}
            ELSE {[w |-> handle_entry(tree, w1, <<>>), item |-> OkItem(<<>>)]}
    ELSE IF w.stack_list = <<>>
    THEN {[w |-> w, item |-> [tag |-> "None"]]}
    ELSE LET n == Len(w.stack_list)
             top == w.stack_list[n]
             w1 == [w EXCEPT !.listed = @ \cup {top.dir}]
         IN IF top.err
            THEN {[w |-> [w1 EXCEPT !.stack_list[n].err = FALSE],
                   item |-> ErrItem(top.dir)]}
            ELSE IF top.rest = {}
            THEN WalkdirNext(tree, [w1 EXCEPT !.stack_list = Front(@)])
            ELSE {[w |-> handle_entry(tree,
                            [w1 EXCEPT !.stack_list[n].rest = @ \ {p}], p),
                   item |-> OkItem(p)] : p \in top.rest}

\* IntoIter::skip_current_dir.
skip_current_dir(w) ==
    IF w.stack_list # <<>> THEN [w EXCEPT !.stack_list = Front(@)] ELSE w

\* next() with the match_path test left out: whatever is not pruned is
\* yielded.
RECURSIVE next_unfiltered(_, _, _, _)
next_unfiltered(tree, m, h, w) ==
    UNION {
        IF o.item.tag # "Ok" THEN {o}
        ELSE LET relative == o.item.path IN
            IF is_dir(tree, relative) /\ ~match_directory(m, relative, h)
            THEN next_unfiltered(tree, m, h,
                      [skip_current_dir(o.w) EXCEPT !.skipped = @ \cup {relative}])
            ELSE {o}
        : o \in WalkdirNext(tree, w)}

\* next() giving up on the directory an error came from: the error is
\* returned and the rest of the directory dropped.
RECURSIVE next_error_fatal(_, _, _, _)
next_error_fatal(tree, m, h, w) ==
    UNION {
        IF o.item.tag = "None" THEN {o}
        ELSE IF o.item.tag = "Err"
        THEN {[w |-> skip_current_dir(skip_current_dir(o.w)), item |-> o.item]}
        ELSE LET relative == o.item.path IN
            IF is_dir(tree, relative) /\ ~match_directory(m, relative, h)
            THEN next_error_fatal(tree, m, h,
                      [skip_current_dir(o.w) EXCEPT !.skipped = @ \cup {relative}])
            ELSE IF ~match_path(m, relative, h)
            THEN next_error_fatal(tree, m, h, o.w)
            ELSE {o}
        : o \in WalkdirNext(tree, w)}

\* next() whose None arm goes round the loop again instead of returning:
\* once the directory walk is exhausted the call never returns, so it has no
\* result.
RECURSIVE next_none_continues(_, _, _, _)
next_none_continues(tree, m, h, w) ==
    UNION {
        IF o.item.tag = "None" THEN {}
        ELSE IF o.item.tag = "Err" THEN {o}
        ELSE LET relative == o.item.path IN
            IF is_dir(tree, relative) /\ ~match_directory(m, relative, h)
            THEN next_none_continues(tree, m, h,
                      [skip_current_dir(o.w) EXCEPT !.skipped = @ \cup {relative}])
            ELSE IF ~match_path(m, relative, h)
            THEN next_none_continues(tree, m, h, o.w)
            ELSE {o}
        : o \in WalkdirNext(tree, w)}

\* GlobWalkerIntoIterator::next: the loop, run until it returns.
RECURSIVE next(_, _, _, _)
next(tree, m, h, w) ==
    UNION {
        IF o.item.tag # "Ok" THEN {o}
        ELSE LET relative == o.item.path IN
            IF is_dir(tree, relative) /\ ~match_directory(m, relative, h)
            THEN next(tree, m, h,
                      [skip_current_dir(o.w) EXCEPT !.skipped = @ \cup {relative}])
            ELSE IF ~match_path(m, relative, h)
            THEN next(tree, m, h, o.w)
            ELSE {o}
        : o \in WalkdirNext(tree, w)}

\* .into_iter().collect() of a walk from w on: the sets of items a complete
\* walk can return, one for every order the host may list directories in.
RECURSIVE Collect(_, _, _, _, _)
Collect(tree, m, h, w, acc) ==
    UNION {IF o.item.tag = "None" THEN {acc}
           ELSE Collect(tree, m, h, o.w, acc \cup {o.item})
           : o \in next(tree, m, h, w)}

\* The iterator and what the walk has done so far, as one record.
Walker == [start |-> state.start, stack_list |-> state.stack_list,
           opened |-> opened, listed |-> listed, skipped |-> skipped,
           visited |-> visited]

Returns(o) ==
    /\ state' = [start |-> o.w.start, stack_list |-> o.w.stack_list]
    /\ opened' = o.w.opened
    /\ listed' = o.w.listed
    /\ skipped' = o.w.skipped
    /\ visited' = o.w.visited
    /\ UNCHANGED <<fs, host, matcher, glob_vars>>

\* next() returns Some(Ok((entry, relative))).
NextOk ==
    /\ ~done
    /\ \E o \in next(fs, matcher, host, Walker) :
        /\ o.item.tag = "Ok"
        /\ Returns(o)
        /\ yielded' = Append(yielded, o.item)
        /\ UNCHANGED done

\* next() returns Some(Err(err)).
NextErr ==
    /\ ~done
    /\ \E o \in next(fs, matcher, host, Walker) :
        /\ o.item.tag = "Err"
        /\ Returns(o)
        /\ yielded' = Append(yielded, o.item)
        /\ UNCHANGED done

\* next() returns None.
NextNone ==
    /\ ~done
    /\ \E o \in next(fs, matcher, host, Walker) :
        /\ o.item.tag = "None"
        /\ Returns(o)
        /\ done' = TRUE
        /\ UNCHANGED yielded

\* The hosts a build is made for: MAIN_SEPARATOR is `/` on "unix" and the
\* backslash on "windows".
Hosts == {"unix", "windows"}

\* GlobWalkDir::new(root, globs).into_iter(), in a build for either host.
Init ==
    /\ fs \in Trees
    /\ host \in Hosts
    /\ \E globs \in GlobLists, built \in BOOLEAN :
          matcher = GlobDirMatcher(globs, built)
    /\ state = WalkDirNew
    /\ yielded = <<>>
    /\ visited = <<>>
    /\ opened = {}
    /\ listed = {}
    /\ skipped = {}
    /\ done = FALSE
    /\ pattern = <<>>
    /\ called = "none"
    /\ returned = [tag |-> "none"]

Next == NextOk \/ NextErr \/ NextNone

Spec == Init /\ [][Next]_vars

\* The walk in a build for a host whose separator is `/`.
InitUnix == Init /\ host = "unix"

SpecUnix == InitUnix /\ [][Next]_vars

\* tests::walk_dir: the walk of the tests' tree with the tests' patterns.
InitTest ==
    /\ fs = TestTree
    /\ host = "unix"
    /\ matcher = GlobDirMatcher(TestGlobs, TRUE)
    /\ state = WalkDirNew
    /\ yielded = <<>>
    /\ visited = <<>>
    /\ opened = {}
    /\ listed = {}
    /\ skipped = {}
    /\ done = FALSE
    /\ pattern = <<>>
    /\ called = "none"
    /\ returned = [tag |-> "none"]

SpecTest == InitTest /\ [][Next]_vars

\* ---------------------------------------------------- calls of validators
\* tests::test_error: the globs of the test.
TestErrorGlobs ==
    {
      <<".", ".">>,
      <<"l", "i", "c", "e", "n", "s", "e", "s", "/", ".", ".">>,
      <<"l", "i", "c", "e", "n", "s", "e", "s", "/", "L", "I", "C", "E",
        "N", "!", "E", ".", "t", "x", "t">>,
      <<"l", "i", "c", "e", "n", "s", "e", "s", "/", "L", "I", "C", "E",
        "N", "[", "!", "C", "]", "E", ".", "t", "x", "t">>,
      <<"l", "i", "c", "e", "n", "s", "e", "s", "/", "L", "I", "C", "E",
        "N", "[", "C", "?", "]", "E", ".", "t", "x", "t">>,
      <<"*", "*", "*", "*", "*", "*">>,
      <<"l", "i", "c", "e", "n", "s", "e", "s", "/", "*", "*", "l", "i",
        "c", "e", "n", "s", "e">>,
      <<"l", "i", "c", "e", "n", "s", "e", "s", "/", "*", "*", "*", "/",
        "l", "i", "c", "e", "n", "s", "e", "s", ".", "c", "s", "v">>,
      <<"l", "i", "c", "e", "n", "s", "e", "s", "\\", "e", "u", "l", "a",
        ".", "t", "x", "t">>
    }

\* tests::test_valid: the cases of the test.
TestValidGlobs ==
    {
      <<"l", "i", "c", "e", "n", "s", "e", "s", "/", "*", ".", "t", "x",
        "t">>,
      <<"l", "i", "c", "e", "n", "s", "e", "s", "/", "*", "*", "/", "*",
        ".", "t", "x", "t">>,
      <<"L", "I", "C", "E", "N", "[", "C", "S", "]", "E", ".", "t", "x",
        "t">>,
      <<"L", "I", "C", "E", "N", "?", "E", ".", "t", "x", "t">>,
      <<"[", "a", "-", "z", "]", ".", "t", "x", "t">>,
      <<"[", "a", "-", "z", ".", "_", "-", "]", ".", "t", "x", "t">>,
      <<"*", "/", "*", "*">>,
      <<"L", "I", "C", "E", "N", "S", "E", ".", ".", "t", "x", "t">>,
      <<"L", "I", "C", "E", "N", "S", "E", "_", "f", "i", "l", "e", "-",
        "1", ".", "t", "x", "t">>,
      <<"l", "i", "c", "e", "n", "s", "e", "s", "/", "U+B77C", "U+C774",
        "U+C13C", "U+C2A4", "*", ".", "t", "x", "t">>,
      <<"l", "i", "c", "e", "n", "s", "e", "s", "/", "U+30E9", "U+30A4",
        "U+30BB", "U+30F3", "U+30B9", "*", ".", "t", "x", "t">>,
      <<"l", "i", "c", "e", "n", "s", "e", "s", "/", "U+6267", "U+7167",
        "*", ".", "t", "x", "t">>
    }

\* The chars the patterns tried are written with: a letter, the chars the
\* validators know, and one they refuse everywhere.
GlobChars == {"a", "*", "/", ".", "[", "]", "-", "?", "!"}

\* The strings over GlobChars of length n at most.
RECURSIVE Strings(_)
Strings(n) ==
    IF n = 0 THEN {<<>>}
    ELSE LET S == Strings(n - 1)
         IN S \cup {Append(t, c) : t \in {u \in S : Len(u) = n - 1},
                                  c \in GlobChars}

Patterns == Strings(MaxPatLen) \cup TestErrorGlobs \cup TestValidGlobs

Call(name, result) ==
    /\ called = "none"
    /\ called' = name
    /\ returned' = result
    /\ UNCHANGED <<pattern, walk_vars>>

\* check_portable_glob(pattern) is called, in a build with overflow checks
\* or in one without.
CheckPortableGlob ==
    \E overflow_checks \in BOOLEAN :
        Call("check_portable_glob", check_portable_glob(pattern, overflow_checks))

\* parse_portable_glob(pattern) is called.
ParsePortableGlob ==
    \E overflow_checks \in BOOLEAN :
        Call("parse_portable_glob", parse_portable_glob(pattern, overflow_checks))

\* check_pep639_globs(pattern) is called.
CheckPep639Globs ==
    \E overflow_checks \in BOOLEAN :
        Call("check_pep639_globs", check_pep639_globs(pattern, overflow_checks))

\* parse_pep639_glob(pattern) is called.
ParsePep639Glob ==
    \E overflow_checks \in BOOLEAN :
        Call("parse_pep639_glob", parse_pep639_glob(pattern, overflow_checks))

\* A pattern is about to be validated; no walk is under way.
InitGlob ==
    /\ pattern \in Patterns
    /\ called = "none"
    /\ returned = [tag |-> "none"]
    /\ fs = [root |-> "missing", kind |-> <<>>]
    /\ host = "unix"
    /\ matcher = GlobDirMatcher(<<>>, TRUE)
    /\ state = WalkDirNew
    /\ yielded = <<>>
    /\ visited = <<>>
    /\ opened = {}
    /\ listed = {}
    /\ skipped = {}
    /\ done = FALSE

NextGlob ==
    CheckPortableGlob \/ ParsePortableGlob \/ CheckPep639Globs \/ ParsePep639Glob

SpecGlob == InitGlob /\ [][NextGlob]_vars

\* ------------------------------------------------------------ properties
\* How often item x has been returned.
Occurrences(x) == Cardinality({i \in 1..Len(yielded) : yielded[i] = x})

\* The relative paths of the Ok items returned so far.
YieldedPaths == {yielded[i].path : i \in {j \in 1..Len(yielded) : yielded[j].tag = "Ok"}}

\* C1 -- walk soundness: every Ok item next() has returned carries a
\* relative path that match_path accepts, whatever entries, skips and errors
\* came before it.
C1_WalkSoundness ==
    \A i \in 1..Len(yielded) :
        yielded[i].tag = "Ok" => match_path(matcher, yielded[i].path, host)

\* An Ok item returned after an error item, in a walk that has skipped a
\* directory and passed over an entry that did not match.
C1_Witness ==
    /\ \E i, j \in 1..Len(yielded) :
          i < j /\ yielded[i].tag = "Err" /\ yielded[j].tag = "Ok"
    /\ skipped # {}
    /\ Range(visited) \ (YieldedPaths \cup skipped) # {}

\* C2 -- walk completeness: when next() has returned None, every file of
\* the tree whose relative path match_path accepts has been yielded exactly
\* once.
C2_WalkCompleteness ==
    done =>
        \A p \in Entries(fs) :
            (/\ KindOf(fs, p) = "file"
             /\ ~ThroughLink(fs, p)
             /\ match_path(matcher, p, host))
            => Occurrences(OkItem(p)) = 1

\* C3 -- prefix pruning is safe: with the DFA built, a path below a
\* directory that match_directory rejects is never matched by match_path;
\* in particular nothing below a skipped directory matches.
C3_PruningSafe ==
    matcher.dfa = "Some" =>
        /\ state.start =>
              \A d \in ProbePaths : \A n \in 1..(Len(d) - 1) :
                  ~match_directory(matcher, SubSeq(d, 1, n), host)
                  => ~match_path(matcher, d, host)
        /\ \A D \in skipped : \A d \in Entries(fs) :
              IsDescendant(d, D) => ~match_path(matcher, d, host)

\* A directory with entries below it has been skipped by a matcher that
\* holds a DFA.
C3_Witness ==
    /\ matcher.dfa = "Some"
    /\ \E D \in skipped : KindOf(fs, D) = "dir" /\ Children(fs, D) # {}

\* C4 -- degraded mode: a matcher without a DFA answers true to
\* match_directory for every path.
C4_DegradedDescendsAll ==
    matcher.dfa = "None" =>
        \A p \in ProbePaths : match_directory(matcher, p, host)

\* C5 -- the root is always descended into: match_directory of the empty
\* path is true for every matcher, and next() never skips the root.
C5_RootDescended ==
    /\ match_directory(matcher, <<>>, host)
    /\ <<>> \notin skipped

\* C6 -- matching directories are yielded: when next() has returned None,
\* every directory of the tree whose relative path match_path accepts has
\* been yielded exactly once.
C6_MatchingDirsYielded ==
    done =>
        \A p \in Entries(fs) :
            (/\ KindOf(fs, p) \in {"dir", "baddir"}
             /\ ~ThroughLink(fs, p)
             /\ match_path(matcher, p, host))
            => Occurrences(OkItem(p)) = 1

\* tests::walk_dir, the expected matches.
walk_dir_expected ==
    { <<pathN("1"), dirN("1")>>,
      <<pathN("2"), dirN("2")>>,
      <<pathN("3"), dirN("3"), subdir, a_txt>>,
      <<pathN("4"), dirN("4")>>,
      <<pathN("4"), dirN("4"), subdir>>,
      <<pathN("4"), dirN("4"), subdir, a_txt>>,
      <<pathN("5")>> }

\* The walk of the tests' tree returns the expected matches, each once and
\* nothing else.
TestWalkYield ==
    done => /\ YieldedPaths = walk_dir_expected
            /\ Len(yielded) = Cardinality(walk_dir_expected)

\* C7 -- degraded mode yields the same: a complete walk by a matcher
\* without DFA has returned a set of items that the walk of the same tree by
\* the matcher with its DFA can return.
C7_DegradedSameOutput ==
    (done /\ matcher.dfa = "None") =>
        Range(yielded) \in
            Collect(fs, GlobDirMatcher(matcher.glob_set, TRUE), host,
                    [start |-> TRUE, stack_list |-> <<>>, opened |-> {},
                     listed |-> {}, skipped |-> {}, visited |-> <<>>], {})

\* The place of item x among the items returned (0 when it was not).
IndexOf(x) ==
    IF \E i \in 1..Len(yielded) : yielded[i] = x
    THEN CHOOSE i \in 1..Len(yielded) : yielded[i] = x
    ELSE 0

Inside(x, D) == IsPrefix(D, x.path)

\* C9 -- depth-first pre-order: a yielded directory comes before every
\* yielded entry below it, and the items of one subtree are consecutive:
\* once an item outside the subtree has been returned, none inside follows.
C9_PreOrder ==
    /\ \A i, j \in 1..Len(yielded) :
          (/\ yielded[i].tag = "Ok" /\ yielded[j].tag = "Ok"
           /\ IsDescendant(yielded[j].path, yielded[i].path)) => i < j
    /\ \A i, j, k \in 1..Len(yielded) :
          (i < j /\ j < k) =>
            \A n \in 0..Len(yielded[i].path) :
               LET D == SubSeq(yielded[i].path, 1, n)
               IN ~Inside(yielded[j], D) => ~Inside(yielded[k], D)

\* A directory, then an entry below it, then an entry outside it have been
\* yielded.
C9_Witness ==
    \E i, j, k \in 1..Len(yielded) :
        /\ i < j /\ j < k
        /\ yielded[i].tag = "Ok" /\ yielded[j].tag = "Ok" /\ yielded[k].tag = "Ok"
        /\ IsDescendant(yielded[j].path, yielded[i].path)
        /\ ~IsPrefix(yielded[i].path, yielded[k].path)

\* No entry has been handed out by the directory walk twice.
NoRevisit ==
    \A i, j \in 1..Len(visited) : visited[i] = visited[j] => i = j

\* C10 as the claim has it -- links are not followed: the walk never asks
\* for the entries of a symbolic link to a directory, never visits or yields
\* a path that leads through a link, and visits no entry twice.
C10_NoLinkRead ==
    /\ \A p \in listed : KindOf(fs, p) # "link"
    /\ \A p \in Range(visited) \cup YieldedPaths : ~ThroughLink(fs, p)
    /\ NoRevisit

\* C10 amended: the same for every link below the root; a root that is
\* itself a link to a directory is opened and walked.
C10_NoLinkReadBelowRoot ==
    /\ \A p \in listed : KindOf(fs, p) = "link" => p = <<>>
    /\ \A p \in Range(visited) \cup YieldedPaths : ~ThroughLink(fs, p)
    /\ NoRevisit

\* A finished walk that visited, and did not skip, a link to a directory
\* which has entries.
C10_Witness ==
    /\ done
    /\ \E p \in Range(visited) \ skipped :
          p # <<>> /\ KindOf(fs, p) = "link" /\ Children(fs, p) # {}

\* C11 -- the walk is a finite sequence: every call of next() returns (as
\* long as None has not been returned, a call has a result), each entry of
\* the tree is handed out by the directory walk at most once, and next()
\* returns at most one item per entry handed out and one error per
\* directory and for the root; so None comes after finitely many calls,
\* whatever was skipped or filtered out on the way.
C11_WalkTerminates ==
    /\ done \/ next(fs, matcher, host, Walker) # {}
    /\ Len(visited) <= Cardinality(Entries(fs)) + 1
    /\ Len(yielded) <= Len(visited) + Cardinality(Entries(fs)) + 1

\* A finished walk during which next() skipped a directory and passed over
\* further entries without yielding them.
C11_Witness ==
    /\ done
    /\ skipped # {}
    /\ yielded # <<>>
    /\ Len(visited) > Len(yielded) + Cardinality(skipped)

\* ------------------------------------------------- properties of validators
\* The call of a validator or parser has returned.
Validated == called # "none"

\* A run of stars begins at p[i] (the char before it, if any, is no star).
RunStartsAt(p, i) ==
    i \in 1..Len(p) /\ p[i] = "*" /\ (i = 1 \/ p[i - 1] # "*")

\* The first n chars of p are letters, digits and separators: nothing in
\* them that a validator could refuse or that could open a class.
PlainBefore(p, n) ==
    \A j \in 1..n : is_alphanumeric(p[j]) \/ (p[j] = "/" /\ j > 1)

\* The run of n stars at p[i] is a whole segment.
WholeSegment(p, i, n) ==
    /\ i = 1 \/ p[i - 1] = "/"
    /\ i + n > Len(p) \/ p[i + n] = "/"

\* C12 -- a pattern with a run of three or more stars, of any length and at
\* any place, is rejected with TooManyStars (here for every pattern in
\* which nothing but letters, digits and separators precedes the run, so
\* that the run is the first thing to refuse).
C12_LongStarRunRejected ==
    (/\ Validated
     /\ \E i \in 1..Len(pattern) :
           /\ RunStartsAt(pattern, i)
           /\ StarRun(pattern, i) >= 3
           /\ PlainBefore(pattern, i - 1))
        => returned.tag = "TooManyStars"

\* C13 -- TooManyStars on a run of n >= 2 stars reports the 0-based index
\* of the first star of the run.
C13_PositionOfFirstStar ==
    (Validated /\ returned.tag = "TooManyStars") =>
        /\ returned.pos \in 0..(Len(pattern) - 1)
        /\ RunStartsAt(pattern, returned.pos + 1)
        /\ StarRun(pattern, returned.pos + 1) >= 2

\* The pattern is written with letters, digits, separators (none leading)
\* and stars only, and each of its runs of stars is a single star or two
\* stars that are a whole segment.
StarsWellFormed(p) ==
    /\ \A j \in 1..Len(p) :
          is_alphanumeric(p[j]) \/ p[j] = "*" \/ (p[j] = "/" /\ j > 1)
    /\ \A i \in 1..Len(p) :
          RunStartsAt(p, i) =>
              \/ StarRun(p, i) = 1
              \/ StarRun(p, i) = 2 /\ WholeSegment(p, i, 2)

\* C14 -- two stars that form a complete segment are accepted: a pattern
\* of plain segments, single stars and `**` segments, with a `**` segment in
\* it, validates and parses without error.
C14_WholeSegmentAccepted ==
    (/\ Validated
     /\ StarsWellFormed(pattern)
     /\ \E i \in 1..Len(pattern) :
           RunStartsAt(pattern, i) /\ StarRun(pattern, i) = 2)
        => returned.tag = "Ok"

\* C15 -- two stars that are not a whole segment are rejected with
\* TooManyStars, whether the char that should not be there follows or
\* precedes them (here for every pattern in which nothing but letters,
\* digits and separators precedes the run).
C15_PartSegmentRejected ==
    (/\ Validated
     /\ \E i \in 1..Len(pattern) :
           /\ RunStartsAt(pattern, i)
           /\ StarRun(pattern, i) = 2
           /\ ~WholeSegment(pattern, i, 2)
           /\ PlainBefore(pattern, i - 1))
        => returned.tag = "TooManyStars"

\* Two consecutive dots at p[i], at the start of the pattern or directly
\* after a separator.
ParentDotsAt(p, i) ==
    /\ i + 1 <= Len(p)
    /\ p[i] = "." /\ p[i + 1] = "."
    /\ i = 1 \/ p[i - 1] = "/"

HasParentDots(p) == \E i \in 1..Len(p) : ParentDotsAt(p, i)

\* The 0-based index of the first dot of the leftmost such pair.
FirstParentDots(p) ==
    (CHOOSE i \in 1..Len(p) :
        ParentDotsAt(p, i) /\ \A j \in 1..(i - 1) : ~ParentDotsAt(p, j)) - 1

\* C16 as the claim has it -- a pattern is rejected with ParentDirectory
\* exactly when it has two consecutive dots at the start or directly after a
\* separator, and the position is the index of the first of those dots.
C16_ParentDirectoryExactly ==
    Validated =>
        /\ returned.tag = "ParentDirectory" <=> HasParentDots(pattern)
        /\ returned.tag = "ParentDirectory" =>
              returned.pos = FirstParentDots(pattern)

\* C16 amended -- ParentDirectory is returned only for a pattern that has
\* such dots, with the index of the first dot of the leftmost pair; a
\* pattern that has them is never accepted, and is answered with
\* ParentDirectory unless the validator stopped before the dots, on another
\* error it places earlier or on the overflow of a star run's position; a
\* pattern of letters, digits and dots without such a pair is accepted.
C16_ParentDirectory ==
    Validated =>
        /\ returned.tag = "ParentDirectory" =>
              /\ HasParentDots(pattern)
              /\ returned.pos = FirstParentDots(pattern)
        /\ HasParentDots(pattern) =>
              \/ returned.tag \in {"ParentDirectory", "panic"}
              \/ /\ returned.tag \in {"TooManyStars", "InvalidCharacter",
                                      "InvalidCharacterRange"}
                 /\ returned.pos < FirstParentDots(pattern)
        /\ (/\ ~HasParentDots(pattern)
            /\ \A j \in 1..Len(pattern) :
                  is_alphanumeric(pattern[j]) \/ pattern[j] = ".")
              => returned.tag = "Ok"

\* A parser has answered ParentDirectory for dots that follow a separator,
\* past the start of the pattern.
C16_Witness ==
    /\ called = "parse_portable_glob"
    /\ returned.tag = "ParentDirectory"
    /\ returned.pos > 0

\* The chars the dialect allows in the body of a class.
BodyChar(c) == is_alphanumeric(c) \/ c \in {"_", "-", "."}

\* The dialect, from p[i] on: letters, digits, `_`, `-`, `.`, `?`, `/`, a
\* single star, two stars that are a whole segment, closed classes of
\* allowed chars, and no two dots at the start of a segment.
RECURSIVE DialectFrom(_, _)
DialectFrom(p, i) ==
    IF i > Len(p) THEN TRUE
    ELSE IF p[i] = "["
    THEN \E k \in (i + 1)..Len(p) :
            /\ p[k] = "]"
            /\ \A j \in (i + 1)..(k - 1) : BodyChar(p[j])
            /\ DialectFrom(p, k + 1)
    ELSE IF p[i] = "*"
    THEN /\ \/ StarRun(p, i) = 1
            \/ StarRun(p, i) = 2 /\ WholeSegment(p, i, 2)
         /\ DialectFrom(p, i + StarRun(p, i))
    ELSE /\ is_alphanumeric(p[i]) \/ p[i] \in {"_", "-", ".", "?", "/"}
         /\ ~ParentDotsAt(p, i)
         /\ DialectFrom(p, i + 1)

\* The pattern is one of the dialect; it does not begin with a separator.
InDialect(p) == (p # <<>> => p[1] # "/") /\ DialectFrom(p, 1)

\* p[k] lies in the body of a class of p.
InClassBody(p, k) ==
    \E i \in 1..(k - 1) :
        p[i] = "[" /\ \A j \in (i + 1)..(k - 1) : p[j] # "]"

\* The one thing wrong with p is the char p[k], which is not allowed where
\* it stands: with a letter in its place the pattern is one of the dialect.
OnlyViolationAt(p, k) ==
    /\ InDialect([p EXCEPT ![k] = "a"])
    /\ IF InClassBody(p, k)
       THEN ~BodyChar(p[k]) /\ p[k] # "]"
       ELSE ~is_alphanumeric(p[k])
            /\ p[k] \notin {"_", "-", ".", "?", "*", "/", "["}

\* C17 -- a pattern whose only violation is one disallowed char is answered
\* with the 0-based index of that char and the char itself, as
\* InvalidCharacterRange when it stands in the body of a class and as
\* InvalidCharacter when it stands outside.
C17_SingleInvalidCharacter ==
    Validated =>
        \A k \in 1..Len(pattern) :
            OnlyViolationAt(pattern, k) =>
                /\ returned.tag = IF InClassBody(pattern, k)
                                  THEN "InvalidCharacterRange"
                                  ELSE "InvalidCharacter"
                /\ returned.pos = k - 1
                /\ returned.invalid = pattern[k]

\* C18 -- a pattern that begins with a separator is rejected: neither
\* parser returns a compiled glob for it.
C18_LeadingSlashRejected ==
    (/\ called \in {"parse_portable_glob", "parse_pep639_glob"}
     /\ pattern # <<>>
     /\ pattern[1] = "/")
        => returned.tag # "Ok"

\* The patterns of C19: of the dialect, and with single stars only.
SingleStarDialect(p) ==
    InDialect(p) /\ \A i \in 1..Len(p) : StarRun(p, i) <= 1

\* p[k] is the first or the last char of the body of its class.
AtBodyEdge(p, k) == p[k - 1] = "[" \/ (k < Len(p) /\ p[k + 1] = "]")

\* No class of p is empty, and a hyphen inside a class body stands between
\* two chars of which the second does not sort before the first.
ClassesInOrder(p) ==
    \A k \in 2..Len(p) :
        /\ (p[k] = "]" /\ InClassBody(p, k)) => p[k - 1] # "["
        /\ (p[k] = "-" /\ InClassBody(p, k) /\ ~AtBodyEdge(p, k)) =>
              CodePoint(p[k - 1]) <= CodePoint(p[k + 1])

\* C19 -- every pattern built from letters and digits of any script, `_`,
\* `-`, `.` (no `..` at a segment start), `?`, single stars, separators
\* (none leading) and closed classes of letters, digits, `_`, `-`, `.`
\* passes both validators without error; the parsers return a compiled
\* glob for it when its classes are not empty and their ranges ascend.
C19_DialectAccepted ==
    (Validated /\ SingleStarDialect(pattern)) =>
        /\ called \in {"check_portable_glob", "check_pep639_globs"} =>
              returned.tag = "Ok"
        /\ (/\ called \in {"parse_portable_glob", "parse_pep639_glob"}
            /\ ClassesInOrder(pattern)) => returned.tag = "Ok"
        /\ returned.tag \in {"Ok", "GlobError"}

\* A parser has compiled a pattern that has a class with a range in it.
C19_Witness ==
    /\ called = "parse_pep639_glob"
    /\ returned.tag = "Ok"
    /\ \E k \in 2..Len(pattern) :
          /\ pattern[k] = "-"
          /\ InClassBody(pattern, k)
          /\ ~AtBodyEdge(pattern, k)

\* The candidate texts tried on a compiled glob.
MatchTexts ==
    {t \in UNION {[1..n -> {"a", "/"}] : n \in 0..3} : TRUE}

\* C20 -- a compiled glob returned by a parser treats the separator as a
\* literal: no `?`, `*` or class of it accepts `/`, so a pattern written
\* without a separator matches no text that has one.
C20_LiteralSeparator ==
    (called \in {"parse_portable_glob", "parse_pep639_glob"}
        /\ returned.tag = "Ok") =>
        LET g == returned.glob IN
        /\ \A x \in 1..Len(g.re) :
              /\ g.re[x].kind \in {"Any", "ZeroOrMore"} => ~WildOk(g, "/")
              /\ g.re[x].kind = "Class" => ~ClassOk(g.re[x], "/")
        /\ "/" \notin Range(pattern) =>
              \A t \in MatchTexts :
                  RegexMatch(g, 1, t, 1) => "/" \notin Range(t)

\* C21 -- every compiled glob comes from a non-empty pattern: neither parser
\* returns a compiled glob when it is called with the empty pattern.
C21_EmptyPatternRejected ==
    (called \in {"parse_portable_glob", "parse_pep639_glob"}
        /\ pattern = <<>>) =>
        returned.tag # "Ok"

\* The directory a/b and the pattern a/b/*.txt.
HostExamplePath == << <<"a">>, <<"b">> >>

HostExampleMatcher ==
    GlobDirMatcher(<<Compiled(<<"a", "/", "b", "/", "*", ".", "t", "x", "t">>)>>, TRUE)

\* C22 -- matching does not depend on the separator of the host: for every
\* entry of the tree, and for the directory a/b against the pattern
\* a/b/*.txt, match_directory and match_path of the build at hand answer
\* what they answer in a build whose separator is `/`.
C22_HostIndependent ==
    /\ \A p \in Entries(fs) :
          /\ match_directory(matcher, p, host) = match_directory(matcher, p, "unix")
          /\ match_path(matcher, p, host) = match_path(matcher, p, "unix")
    /\ state.start =>
          /\ match_directory(HostExampleMatcher, HostExamplePath, host)
                = match_directory(HostExampleMatcher, HostExamplePath, "unix")
          /\ match_path(HostExampleMatcher, HostExamplePath, host)
                = match_path(HostExampleMatcher, HostExamplePath, "unix")

\* The part of C22 that is about match_path alone.
C22_MatchPathHostIndependent ==
    \A p \in Entries(fs) :
        match_path(matcher, p, host) = match_path(matcher, p, "unix")

\* The DFA state reached after the bytes of the path D.
StateAfter(D) ==
    Feed(matcher.glob_set, start_state(matcher.glob_set), from_path_lossy(D, host), 1)

\* C23 -- with the DFA present and D not empty, match_directory(D) is true
\* exactly when the state reached after the bytes of D is a match state at
\* the end of the input or has a transition on `/` to a state that is not
\* the dead state.
C23_DescendIffMatchOrSlash ==
    matcher.dfa = "Some" =>
        \A D \in Entries(fs) :
            match_directory(matcher, D, host)
            <=> \/ eoi_is_match(matcher.glob_set, StateAfter(D))
                \/ ~is_dead_state(next_state(matcher.glob_set, StateAfter(D), "/"))

\* C24 -- the walker reads the children of a directory exactly when
\* match_directory of its relative path is true: once the walk is over, a
\* directory it came to that match_directory rejects has not been yielded
\* and none of its entries has been read, and one that match_directory
\* accepts has had every entry of it examined, and is yielded only if
\* match_path accepts it too.
C24_ChildrenReadIffMatchDirectory ==
    done =>
        \A d \in Range(visited) :
            KindOf(fs, d) = "dir" =>
                IF match_directory(matcher, d, host)
                THEN /\ d \in listed
                     /\ Children(fs, d) \subseteq Range(visited)
                     /\ ~match_path(matcher, d, host) => d \notin YieldedPaths
                ELSE /\ d \notin listed
                     /\ Children(fs, d) \cap Range(visited) = {}
                     /\ d \notin YieldedPaths

\* C24 for the walks in which no symbolic link has been skipped.
C24_WithoutSkippedLinks ==
    (\A p \in skipped : KindOf(fs, p) # "link") => C24_ChildrenReadIffMatchDirectory

\* Some glob of the matcher matches the path p written with `/`.
GlobMatches(p) == GlobSetIsMatch(matcher.glob_set, JoinFrom(p, 1, "/"))

\* Some glob matches a path that extends D by one or two further segments.
MatchBelow(D) == \E E \in PathsUpTo(2) \ {<<>>} : GlobMatches(D \o E)

\* C25 -- pruning is exact: with the DFA present, match_directory is false
\* for every non-empty path D that no glob matches and below which no glob
\* matches any path.
C25_PruningExact ==
    (matcher.dfa = "Some" /\ state.start) =>
        \A D \in PathsUpTo(MaxDepth) \ {<<>>} :
            (~GlobMatches(D) /\ ~MatchBelow(D)) => ~match_directory(matcher, D, host)

\* C26 -- every position a validator reports is a 0-based index of a char
\* of the pattern, and the arithmetic on the position of a run of stars
\* never goes below zero: no call panics on the subtraction or returns a
\* wrapped position.
C26_PositionInRange ==
    Validated =>
        /\ returned.tag # "panic"
        /\ returned.tag \in {"TooManyStars", "ParentDirectory",
                             "InvalidCharacter", "InvalidCharacterRange"}
              => returned.pos \in 0..(Len(pattern) - 1)

\* The part of C26 about the errors other than TooManyStars.
C26_OtherPositionsInRange ==
    (Validated /\ returned.tag \in {"ParentDirectory", "InvalidCharacter",
                                      "InvalidCharacterRange"})
        => returned.pos \in 0..(Len(pattern) - 1)

\* C27 -- a skip removes the subtree of the skipped entry and nothing else:
\* once the walk is over, every entry that lies in the same directory as an
\* entry next() called skip_current_dir for has been examined, and has
\* been yielded if match_path accepts it and it was not skipped itself.
C27_SkipKeepsSiblings ==
    done =>
        \A e \in skipped \ {<<>>} : \A s \in Children(fs, Front(e)) :
            /\ s \in Range(visited)
            /\ (match_path(matcher, s, host) /\ s \notin skipped)
                  => s \in YieldedPaths

\* C27 for the walks in which no symbolic link has been skipped.
C27_WithoutSkippedLinks ==
    (\A p \in skipped : KindOf(fs, p) # "link") => C27_SkipKeepsSiblings

\* C28 -- the two matchers agree: with the DFA present, match_directory
\* accepts every non-empty path that match_path accepts, so no entry that
\* matches a glob is ever skipped.
C28_MatchersAgree ==
    matcher.dfa = "Some" =>
        /\ state.start =>
              \A p \in ProbePaths \ {<<>>} :
                  match_path(matcher, p, host) => match_directory(matcher, p, host)
        /\ \A p \in skipped : ~match_path(matcher, p, host)

\* From p[i] on, every `[` that opens a class has a `]` after it that
\* closes it.
RECURSIVE BalancedFrom(_, _)
BalancedFrom(p, i) ==
    IF i > Len(p) THEN TRUE
    ELSE IF p[i] = "["
    THEN \E k \in (i + 1)..Len(p) :
            /\ p[k] = "]"
            /\ \A j \in (i + 1)..(k - 1) : p[j] # "]"
            /\ BalancedFrom(p, k + 1)
    ELSE BalancedFrom(p, i + 1)

\* A char the validators allow outside a class.
OutsideChar(c) ==
    is_alphanumeric(c) \/ c \in {"_", "-", "?", ".", "/", "*", "["}

\* C29 -- a pattern a validator accepts has balanced classes: each `[` is
\* closed by a later `]`, and every char that follows the `]` of a class
\* is held to the rules for chars outside a class.
C29_ClassesBalanced ==
    (called \in {"check_portable_glob", "check_pep639_globs"}
        /\ returned.tag = "Ok") =>
        /\ BalancedFrom(pattern, 1)
        /\ \A k \in 1..Len(pattern) :
              ~InClassBody(pattern, k) => OutsideChar(pattern[k])

\* The part of C29 about the chars outside the classes.
C29_OutsideRulesResume ==
    (called \in {"check_portable_glob", "check_pep639_globs"}
        /\ returned.tag = "Ok") =>
        \A k \in 1..Len(pattern) :
            ~InClassBody(pattern, k) => OutsideChar(pattern[k])

\* What the parsers make of it: a compiled glob has balanced classes.
C29_CompiledClassesBalanced ==
    (called \in {"parse_portable_glob", "parse_pep639_glob"}
        /\ returned.tag = "Ok") =>
        BalancedFrom(pattern, 1)

\* C30 -- the two validators are equivalent: on the pattern of a call, and
\* in the same build, check_pep639_globs and check_portable_glob both
\* accept or both reject with the same error kind, the same position and
\* the same invalid char.
C30_ValidatorsEquivalent ==
    Validated =>
        \A overflow_checks \in BOOLEAN :
            check_pep639_globs(pattern, overflow_checks)
                = check_portable_glob(pattern, overflow_checks)

\* The pattern has a run of exactly two stars with a `/` right after it.
HasTwoStarsBeforeSlash(p) ==
    \E i \in 1..Len(p) :
        /\ RunStartsAt(p, i)
        /\ StarRun(p, i) = 2
        /\ i + 2 <= Len(p)
        /\ p[i + 2] = "/"

\* C30 for the patterns without such a run.
C30_EquivalentElsewhere ==
    (Validated /\ ~HasTwoStarsBeforeSlash(pattern)) => C30_ValidatorsEquivalent

====
